---------------------------- MODULE Spec2Model ----------------------------
(***************************************************************************)
(* State-machine model of the presentation application:                    *)
(*   - PresentationViewer (slide index, autoplay interval, fullscreen,     *)
(*     transient controls with their hide timeout),                        *)
(*   - PresentationEditor (slide-list operations on the in-memory deck),   *)
(*   - App with Dashboard (the three views, and the requests that create,  *)
(*     open and save a presentation and generate an image).                *)
(* Every action is one event handler together with the React effects that  *)
(* its state changes re-run (effect cleanup included).  Time is counted in *)
(* seconds; a timer is the number of seconds left until it fires.          *)
(* SpecViewer is the viewer mounted on a fixed deck, SpecEditor the editor *)
(* working on its in-memory copy, SpecApp the app from the dashboard on    *)
(* with requests in flight, SpecNavigation the same without the slide     *)
(* handlers, and SpecSlideIds the editor with several slides added in one  *)
(* sitting.  platformFullscreen is what the platform shows, as opposed to  *)
(* the viewer's flag.  A request is issued by one step and completed (or   *)
(* failed) by a later one;                                                 *)
(* presentations are compared by value, so a saved copy                    *)
(* equal to what App holds counts as the object App holds.  The viewer's   *)
(* handlers are modelled as they are defined; its keydown effect lists     *)
(* nextSlide, prevSlide, toggleFullscreen and restart as dependencies      *)
(* above their const declarations, which is not modelled.                  *)
(***************************************************************************)
EXTENDS Integers, Sequences, FiniteSets, TLC

\* ------------------------------------------------------------------ bounds
MaxSlides == 3

MaxClock == 1

MaxEdits == 1

MaxRequests == 3

MaxNewSlides == 2

\* --------------------------------------------------------- program constants
AutoPlayIntervalSec == 5

HideDelaySec == 3

NoTimer == -1

Undefined == "undefined"

CopySuffix == " (Copy)"

Layouts == {"title", "content", "image", "split"}

Themes == {"modern", "minimal", "vibrant", "professional", "nature"}

VARIABLES
    currentView,            \* App: 'dashboard' | 'editor' | 'viewer'
    presentation,           \* App: currentPresentation, the prop of editor and viewer
    currentPresentation,    \* Editor: its in-memory copy of the presentation
    selectedSlideIndex,     \* Editor
    currentSlideIndex,      \* Viewer
    isFullscreen,           \* Viewer
    isAutoPlay,             \* Viewer
    showControls,           \* Viewer
    interval,               \* Viewer: seconds until the autoplay interval fires, or NoTimer
    timeout,                \* Viewer: seconds until the hide timeout fires, or NoTimer
    now,                    \* environment: the reading of Date.now()
    edits,                  \* environment: slides added or duplicated and fields edited so far
    lastOp,                 \* history: the event handled last
    idle,                   \* history: seconds since the last index change, mouse move or fullscreen change
    run,                    \* history: the autoplay run since autoplay was last switched on
    loading,                \* App: the loader screen replaces dashboard, editor and viewer
    presentations,          \* App: the rows last listed from the database
    stored,                 \* backend: the rows of blink.db.presentations
    isCreateOpen,           \* Dashboard: the create dialog is open
    title,                  \* Dashboard: the create dialog's title input
    prompt,                 \* Dashboard: the create dialog's prompt input
    isCreating,             \* Dashboard
    isSaving,               \* Editor
    isGeneratingImage,      \* Editor
    saves,                  \* in flight: calls of handleSave, in the order issued
    gens,                   \* in flight: calls of generateImage, in the order issued
    opens,                  \* in flight: calls of openPresentation, in the order issued
    creates,                \* in flight: the call of createPresentation, if any
    issued,                 \* environment: requests issued so far
    wanted,                 \* history: the id passed to the latest openPresentation call
    platformFullscreen      \* platform: the document is shown fullscreen

vars == <<currentView, presentation, currentPresentation, selectedSlideIndex,
          currentSlideIndex, isFullscreen, isAutoPlay, showControls, interval,
          timeout, now, edits, lastOp, idle, run, loading, presentations, stored,
          isCreateOpen, title, prompt, isCreating, isSaving, isGeneratingImage,
          saves, gens, opens, creates, issued, wanted, platformFullscreen>>

appVars == <<currentView, presentation>>

editorVars == <<currentPresentation, selectedSlideIndex>>

dashboardVars == <<isCreateOpen, title, prompt, isCreating>>

requestVars == <<loading, presentations, stored, isSaving, isGeneratingImage,
                 saves, gens, opens, creates, issued, wanted>>

viewerVars == <<currentSlideIndex, isFullscreen, isAutoPlay, showControls, interval, timeout,
                platformFullscreen>>

historyVars == <<idle, run>>

Min(a, b) == IF a < b THEN a ELSE b

Max(a, b) == IF a > b THEN a ELSE b

\* ------------------------------------------------------------- data model
\* A slide as createPresentation builds it: id `slide-${Date.now()}-${index}`.
CreatedSlide(t, i, ttl, lay) ==
    [id |-> <<"slide", t, i>>, title |-> ttl, content |-> "text",
     imageUrl |-> Undefined, theme |-> "modern", layout |-> lay]

CreatedSlides(n) ==
    [i \in 1..n |-> CreatedSlide(0, i - 1, IF i = 1 THEN "Intro" ELSE "Topic",
                                 IF i = 1 THEN "title" ELSE "content")]

\* A presentation as createPresentation builds it: id `pres-${Date.now()}`;
\* the decks that exist at the start were created before the clock reads 0.
CreatedPresentation(n) ==
    [id |-> <<"pres", 0 - n>>, title |-> "Deck", theme |-> "modern",
     slides |-> CreatedSlides(n)]

ImageUrls == {"https://img/1"}

\* a presentation saved after an image was generated for its second slide
IllustratedPresentation ==
    [id |-> <<"pres", 0 - (MaxSlides + 1)>>, title |-> "Deck", theme |-> "modern",
     slides |-> [i \in 1..2 |->
                    IF i = 2
                    THEN [CreatedSlides(2)[i] EXCEPT !.imageUrl = CHOOSE u \in ImageUrls : TRUE]
                    ELSE CreatedSlides(2)[i]]]

InitDecks == {CreatedPresentation(n) : n \in 1..MaxSlides} \cup {IllustratedPresentation}

SlideFields == {"id", "title", "content", "imageUrl", "theme", "layout"}

\* JSON.stringify(presentation.slides): a property whose value is undefined is left out
JsonStringify(ss) ==
    [i \in 1..Len(ss) |->
        [f \in {g \in DOMAIN ss[i] : ~(g = "imageUrl" /\ ss[i][g] = Undefined)} |-> ss[i][f]]]

\* JSON.parse(data[0].slides): a property that is absent reads as undefined
JsonParse(js) ==
    [i \in 1..Len(js) |->
        [f \in SlideFields |-> IF f \in DOMAIN js[i] THEN js[i][f] ELSE Undefined]]

\* the row blink.db.presentations keeps of a presentation (create and update)
Row(p) == [id |-> p.id, title |-> p.title, theme |-> p.theme, slides |-> JsonStringify(p.slides)]

\* openPresentation: { ...data[0], slides: JSON.parse(data[0].slides) }
Opened(row) == [row EXCEPT !.slides = JsonParse(row.slides)]

\* useState<Presentation | null>(null)
NoPresentation == [id |-> << >>, title |-> "", theme |-> "", slides |-> << >>]

SlideCount == Len(presentation.slides)

\* ================================================================= viewer
\* useState initial values, and the effects' first run (not fullscreen, not autoplay).
ViewerMountState ==
    /\ currentSlideIndex = 0
    /\ isFullscreen = FALSE
    /\ isAutoPlay = FALSE
    /\ showControls = TRUE
    /\ interval = NoTimer
    /\ timeout = NoTimer

\* useState(presentation), useState(0)
EditorMountState ==
    /\ currentPresentation = presentation
    /\ selectedSlideIndex = 0

NoRun == [clean |-> FALSE, start |-> 0, ticks |-> 0]

InitHistory ==
    /\ idle = 0
    /\ run = NoRun
    /\ lastOp = "mount"

\* the presentations the signed-in user has in the database at the start
StoredDecks == {CreatedPresentation(1), CreatedPresentation(2)}

\* Dashboard: useState(false), useState(''), useState(''), useState(false)
DashboardMountState ==
    /\ isCreateOpen = FALSE
    /\ title = ""
    /\ prompt = ""
    /\ isCreating = FALSE

\* The user is signed in, the rows were listed once (the effect on [user,
\* loadPresentations]) and no request is in flight.
InitRequests ==
    /\ loading = FALSE
    /\ stored = {Row(d) : d \in StoredDecks}
    /\ presentations = stored
    /\ isSaving = FALSE
    /\ isGeneratingImage = FALSE
    /\ saves = << >>
    /\ gens = << >>
    /\ opens = << >>
    /\ creates = << >>
    /\ issued = 0
    /\ wanted = << >>
    /\ platformFullscreen = FALSE

InitCommon ==
    /\ presentation \in InitDecks
    /\ EditorMountState
    /\ ViewerMountState
    /\ DashboardMountState
    /\ InitRequests
    /\ now = 0
    /\ edits = 0
    /\ InitHistory

InitViewer == InitCommon /\ currentView = "viewer"

NextIndexUnguarded(i, n) == i + 1

\* nextSlide
NextIndex(i, n) == IF i < n - 1 THEN i + 1 ELSE i

\* prevSlide
PrevIndex(i) == IF i > 0 THEN i - 1 ELSE i

\* restart
RestartIndex == 0

RestartAutoPlayKept == isAutoPlay

RestartAutoPlay == FALSE

TickIndexWrapping(prev, n) == IF prev >= n - 1 THEN 0 ELSE prev + 1

\* the updater of the autoplay interval callback
TickIndex(prev, n) == IF prev >= n - 1 THEN prev ELSE prev + 1

TickAutoPlayNeverStops(prev, n, ap) == ap

TickAutoPlay(prev, n, ap) == IF prev >= n - 1 THEN FALSE ELSE ap

\* toggleAutoPlay
ToggledAutoPlay(ap) == ~ap

\* autoplay effect, deps [isAutoPlay, slides.length]: cleanup clears the old
\* interval, the body arms a new one; iv is the interval if the effect does not re-run.
IntervalEffect(ap, changed, iv) ==
    IF changed THEN (IF ap THEN AutoPlayIntervalSec ELSE NoTimer) ELSE iv

TimeoutEffectNoCleanup(fs, changed, to) ==
    IF changed /\ fs THEN HideDelaySec ELSE to

\* controls effect, deps [isFullscreen, currentSlideIndex]: cleanup clears the
\* old timeout, the body arms a new one in fullscreen; to is the timeout otherwise.
TimeoutEffect(fs, changed, to) ==
    IF changed THEN (IF fs THEN HideDelaySec ELSE NoTimer) ELSE to

\* the else branch of the controls effect: setShowControls(true)
ShowControlsEffect(fs, changed, sc) ==
    IF changed /\ ~fs THEN TRUE ELSE sc

\* onMouseMove={() => setShowControls(true)}; the hide timeout is not touched
MouseMoveTimeout(to) == to

\* className of the controls: showControls || !isFullscreen
ControlsOpaque == showControls \/ ~isFullscreen

\* What the platform shows after the handler set the flag to fs: a handler that
\* sets it to true has called document.documentElement.requestFullscreen(),
\* which the platform grants or rejects; one that sets it to false has called
\* document.exitFullscreen(); any other handler makes no call.
PlatformAfter(fs) ==
    IF fs = isFullscreen THEN {platformFullscreen}
    ELSE IF fs THEN {TRUE, platformFullscreen}
    ELSE {FALSE}

\* One render of the viewer with the new state values and the effects it re-runs.
ViewerUpdate(idx, fs, ap, sc, iv, to) ==
    LET ctlChanged == (fs # isFullscreen) \/ (idx # currentSlideIndex)
        apChanged  == ap # isAutoPlay
    IN  /\ currentSlideIndex' = idx
        /\ isFullscreen' = fs
        /\ isAutoPlay' = ap
        /\ showControls' = ShowControlsEffect(fs, ctlChanged, sc)
        /\ timeout' = TimeoutEffect(fs, ctlChanged, to)
        /\ interval' = IntervalEffect(ap, apChanged, iv)
        /\ platformFullscreen' \in PlatformAfter(fs)

\* history: an index change, a fullscreen change or a mouse move is activity
IdleAfter(activity) == IF activity THEN 0 ELSE idle

ViewerFrame == UNCHANGED <<appVars, editorVars, now, edits, dashboardVars, requestVars>>

NextSlide ==
    /\ currentView = "viewer"
    /\ LET idx == NextIndex(currentSlideIndex, SlideCount)
       IN  /\ ViewerUpdate(idx, isFullscreen, isAutoPlay, showControls, interval, timeout)
           /\ idle' = IdleAfter(idx # currentSlideIndex)
    /\ run' = NoRun
    /\ lastOp' = "next"
    /\ ViewerFrame

PrevSlide ==
    /\ currentView = "viewer"
    /\ LET idx == PrevIndex(currentSlideIndex)
       IN  /\ ViewerUpdate(idx, isFullscreen, isAutoPlay, showControls, interval, timeout)
           /\ idle' = IdleAfter(idx # currentSlideIndex)
    /\ run' = NoRun
    /\ lastOp' = "prev"
    /\ ViewerFrame

Restart ==
    /\ currentView = "viewer"
    /\ ViewerUpdate(RestartIndex, isFullscreen, RestartAutoPlay, showControls, interval, timeout)
    /\ idle' = IdleAfter(RestartIndex # currentSlideIndex)
    /\ run' = NoRun
    /\ lastOp' = "restart"
    /\ ViewerFrame

ToggleAutoPlay ==
    /\ currentView = "viewer"
    /\ LET ap == ToggledAutoPlay(isAutoPlay)
       IN  /\ ViewerUpdate(currentSlideIndex, isFullscreen, ap, showControls, interval, timeout)
           /\ run' = IF ap THEN [clean |-> TRUE, start |-> currentSlideIndex, ticks |-> 0]
                          ELSE NoRun
    /\ idle' = idle
    /\ lastOp' = "toggleAutoPlay"
    /\ ViewerFrame

ExitFullscreenStays == TRUE

\* exitFullscreen: document.exitFullscreen(); setIsFullscreen(false)
ExitFullscreenValue == FALSE

\* toggleFullscreen: request and set true when not fullscreen, else exitFullscreen
ToggledFullscreen(fs) == IF ~fs THEN TRUE ELSE ExitFullscreenValue

ToggleFullscreen ==
    /\ currentView = "viewer"
    /\ LET fs == ToggledFullscreen(isFullscreen)
       IN  /\ ViewerUpdate(currentSlideIndex, fs, isAutoPlay, showControls, interval, timeout)
           /\ idle' = IdleAfter(fs # isFullscreen)
    /\ run' = run
    /\ lastOp' = "toggleFullscreen"
    /\ ViewerFrame

MouseMove ==
    /\ currentView = "viewer"
    /\ ViewerUpdate(currentSlideIndex, isFullscreen, isAutoPlay, TRUE, interval,
                    MouseMoveTimeout(timeout))
    /\ idle' = IdleAfter(TRUE)
    /\ run' = run
    /\ lastOp' = "mouseMove"
    /\ ViewerFrame

\* The autoplay interval fires (setInterval re-arms itself unless the effect clears it).
AutoplayTick ==
    /\ currentView = "viewer"
    /\ interval = 0
    /\ LET idx == TickIndex(currentSlideIndex, SlideCount)
           ap  == TickAutoPlay(currentSlideIndex, SlideCount, isAutoPlay)
       IN  /\ ViewerUpdate(idx, isFullscreen, ap, showControls, AutoPlayIntervalSec, timeout)
           /\ idle' = IdleAfter(idx # currentSlideIndex)
    /\ run' = IF run.clean THEN [run EXCEPT !.ticks = @ + 1] ELSE run
    /\ lastOp' = "tick"
    /\ ViewerFrame

\* The hide timeout fires: setShowControls(false); a timeout fires once.
HideTimeout ==
    /\ currentView = "viewer"
    /\ timeout = 0
    /\ ViewerUpdate(currentSlideIndex, isFullscreen, isAutoPlay, FALSE, interval, NoTimer)
    /\ idle' = idle
    /\ run' = run
    /\ lastOp' = "hide"
    /\ ViewerFrame

\* One second passes; no timer that is due is skipped.
TimePasses ==
    /\ currentView = "viewer"
    /\ interval # 0
    /\ timeout # 0
    /\ interval > 0 \/ timeout > 0 \/ idle <= HideDelaySec
    /\ interval' = IF interval > 0 THEN interval - 1 ELSE interval
    /\ timeout' = IF timeout > 0 THEN timeout - 1 ELSE timeout
    /\ idle' = Min(idle + 1, HideDelaySec + 1)
    /\ lastOp' = "time"
    /\ UNCHANGED <<currentSlideIndex, isFullscreen, isAutoPlay, showControls, run,
                   platformFullscreen>>
    /\ ViewerFrame

\* The platform leaves fullscreen on its own (its own Escape handling, a
\* switch of window): the viewer has no fullscreenchange listener.
PlatformLeavesFullscreen ==
    /\ currentView = "viewer"
    /\ platformFullscreen
    /\ platformFullscreen' = FALSE
    /\ lastOp' = "platformExit"
    /\ UNCHANGED <<currentSlideIndex, isFullscreen, isAutoPlay, showControls, interval,
                   timeout, historyVars>>
    /\ ViewerFrame

\* The editor mounts: useState(presentation), useState(0).
MountEditor ==
    /\ currentPresentation' = presentation'
    /\ selectedSlideIndex' = 0

\* The viewer unmounts: its state is dropped and the effects' cleanups clear both timers.
UnmountViewer ==
    /\ currentSlideIndex' = 0
    /\ isFullscreen' = FALSE
    /\ isAutoPlay' = FALSE
    /\ showControls' = TRUE
    /\ interval' = NoTimer
    /\ timeout' = NoTimer
    /\ platformFullscreen' = platformFullscreen

\* onBack of the viewer: App sets currentView to 'editor'; the viewer unmounts
\* (its effects' cleanups clear both timers) and the editor mounts on the prop.
ViewerBack(op) ==
    /\ currentView' = "editor"
    /\ presentation' = presentation
    /\ MountEditor
    /\ UnmountViewer
    /\ idle' = 0
    /\ run' = NoRun
    /\ lastOp' = op
    /\ UNCHANGED <<now, edits, dashboardVars, requestVars>>

\* case 'Escape': if (isFullscreen) exitFullscreen() else onBack()
KeyEscape ==
    /\ currentView = "viewer"
    /\ IF isFullscreen
       THEN /\ ViewerUpdate(currentSlideIndex, ExitFullscreenValue, isAutoPlay, showControls,
                            interval, timeout)
            /\ idle' = IdleAfter(TRUE)
            /\ run' = run
            /\ lastOp' = "escape"
            /\ ViewerFrame
       ELSE ViewerBack("escapeBack")

\* the Exit button: onClick={onBack}
ExitButton ==
    /\ currentView = "viewer"
    /\ ViewerBack("exit")

UserOps == {"next", "prev", "restart", "toggleAutoPlay", "toggleFullscreen",
            "mouseMove", "escape", "escapeBack", "exit"}

NextViewer ==
    \/ NextSlide
    \/ PrevSlide
    \/ Restart
    \/ ToggleAutoPlay
    \/ ToggleFullscreen
    \/ MouseMove
    \/ KeyEscape
    \/ ExitButton
    \/ AutoplayTick
    \/ HideTimeout
    \/ TimePasses
    \/ PlatformLeavesFullscreen

SpecViewer == InitViewer /\ [][NextViewer]_vars

\* The browser's timers fire and time passes: the event loop is never blocked.
SpecViewerFair ==
    /\ SpecViewer
    /\ WF_vars(TimePasses)
    /\ WF_vars(AutoplayTick)
    /\ WF_vars(HideTimeout)

TypeOK ==
    /\ currentView \in {"dashboard", "editor", "viewer"}
    /\ currentSlideIndex \in Nat
    /\ isFullscreen \in BOOLEAN /\ isAutoPlay \in BOOLEAN /\ showControls \in BOOLEAN
    /\ interval \in {NoTimer} \cup 0..AutoPlayIntervalSec
    /\ timeout \in {NoTimer} \cup 0..HideDelaySec
    /\ idle \in 0..(HideDelaySec + 1)
    /\ platformFullscreen \in BOOLEAN

\* ================================================================= editor
InitEditor == InitCommon /\ currentView = "editor"

slides == currentPresentation.slides

\* const selectedSlide = currentPresentation.slides[selectedSlideIndex]
SlideAt(ss, index) == ss[index + 1]

\* { ...slide, ...updates }
MergedSlide(slide, updates) ==
    [f \in DOMAIN slide |-> IF f \in DOMAIN updates THEN updates[f] ELSE slide[f]]

UpdatedSlidesAll(ss, sel, updates) ==
    [i \in 1..Len(ss) |-> MergedSlide(ss[i], updates)]

\* updateSlide: slides.map((slide, index) => index === selectedSlideIndex ? merged : slide)
UpdatedSlides(ss, sel, updates) ==
    [i \in 1..Len(ss) |-> IF i - 1 = sel THEN MergedSlide(ss[i], updates) ELSE ss[i]]

\* addSlide: the new slide
NewSlide(t, theme) ==
    [id |-> <<"slide", t>>, title |-> "New Slide", content |-> "Add your content here...",
     imageUrl |-> Undefined, theme |-> theme, layout |-> "content"]

\* addSlide: [...slides, newSlide]
AddedSlides(ss, new) == Append(ss, new)

\* addSlide: setSelectedSlideIndex(updatedSlides.length - 1)
AddedSelection(updated) == Len(updated) - 1

\* duplicateSlide: { ...slideToClone, id, title: `${title} (Copy)` }
ClonedSlide(slide, t) ==
    [slide EXCEPT !.id = <<"slide", t>>, !.title = slide.title \o CopySuffix]

DuplicatedSlidesAtEnd(ss, sel, new) == Append(ss, new)

\* duplicateSlide: [...slice(0, sel + 1), newSlide, ...slice(sel + 1)]
DuplicatedSlides(ss, sel, new) ==
    SubSeq(ss, 1, sel + 1) \o <<new>> \o SubSeq(ss, sel + 2, Len(ss))

\* duplicateSlide: setSelectedSlideIndex(selectedSlideIndex + 1)
DuplicatedSelection(sel) == sel + 1

DeleteRejectedNever(ss) == FALSE

\* deleteSlide: if (slides.length <= 1) return
DeleteRejected(ss) == Len(ss) <= 1

DeletedSlidesFirst(ss, sel) == Tail(ss)

\* deleteSlide: slides.filter((_, index) => index !== selectedSlideIndex)
DeletedSlides(ss, sel) ==
    LET keep == {i \in 1..Len(ss) : i - 1 # sel}
        F[i \in 0..Len(ss)] ==
            IF i = 0 THEN << >>
            ELSE IF i \in keep THEN Append(F[i - 1], ss[i]) ELSE F[i - 1]
    IN  F[Len(ss)]

DeletedSelectionUnclamped(sel) == sel - 1

\* deleteSlide: setSelectedSlideIndex(Math.max(0, selectedSlideIndex - 1))
DeletedSelection(sel) == Max(0, sel - 1)

\* moveSlide: newIndex = direction === 'up' ? currentIndex - 1 : currentIndex + 1
MoveTarget(sel, direction) == IF direction = "up" THEN sel - 1 ELSE sel + 1

\* moveSlide: if (newIndex < 0 || newIndex >= slides.length) return
MoveRejected(ss, newIndex) == newIndex < 0 \/ newIndex >= Len(ss)

\* moveSlide: [slides[currentIndex], slides[newIndex]] = [slides[newIndex], slides[currentIndex]]
SwappedSlides(ss, a, b) ==
    [i \in 1..Len(ss) |-> IF i - 1 = a THEN ss[b + 1]
                          ELSE IF i - 1 = b THEN ss[a + 1] ELSE ss[i]]

MovedSelectionStays(sel, newIndex) == sel

\* moveSlide: setSelectedSlideIndex(newIndex)
MovedSelection(sel, newIndex) == newIndex

\* the thumbnails drawn with the selection ring: index === selectedSlideIndex
SelectedThumbnails == {i \in 0..(Len(slides) - 1) : i = selectedSlideIndex}

\* values typed into the inputs
TitleInputs == {"Q3 Review"}

ContentInputs == {"Agenda"}

\* the layout and theme buttons pressed
LayoutInputs == {"split"}

ThemeInputs == {"minimal"}

EditorFrame == UNCHANGED <<appVars, viewerVars, historyVars, dashboardVars, requestVars>>

\* {currentView === 'editor' && currentPresentation && <PresentationEditor .../>},
\* below App's early return of the loader screen
EditorMounted == currentView = "editor" /\ ~loading /\ presentation # NoPresentation

\* const selectedSlide = currentPresentation.slides[selectedSlideIndex] is
\* undefined and the editor's render reads selectedSlide.layout: the render
\* throws and React removes the whole tree.
Crashed == EditorMounted /\ selectedSlideIndex \notin 0..(Len(slides) - 1)

\* the editor is on screen and its handlers can run
EditorOnScreen == EditorMounted /\ ~Crashed

\* addSlide, while fewer than budget edits were made
AddSlideWithin(budget) ==
    /\ EditorOnScreen
    /\ Len(slides) < MaxSlides
    /\ edits < budget
    /\ LET updated == AddedSlides(slides, NewSlide(now, currentPresentation.theme))
       IN  /\ currentPresentation' = [currentPresentation EXCEPT !.slides = updated]
           /\ selectedSlideIndex' = AddedSelection(updated)
    /\ edits' = edits + 1
    /\ lastOp' = "add"
    /\ UNCHANGED now
    /\ EditorFrame

AddSlide == AddSlideWithin(MaxEdits)

\* duplicateSlide, while fewer than budget edits were made
DuplicateSlideWithin(budget) ==
    /\ EditorOnScreen
    /\ Len(slides) < MaxSlides
    /\ edits < budget
    /\ LET new == ClonedSlide(SlideAt(slides, selectedSlideIndex), now)
       IN  currentPresentation' =
               [currentPresentation EXCEPT
                   !.slides = DuplicatedSlides(slides, selectedSlideIndex, new)]
    /\ selectedSlideIndex' = DuplicatedSelection(selectedSlideIndex)
    /\ edits' = edits + 1
    /\ lastOp' = "duplicate"
    /\ UNCHANGED now
    /\ EditorFrame

DuplicateSlide == DuplicateSlideWithin(MaxEdits)

\* The Delete button is disabled on a one-slide deck; the handler's own guard
\* is what is modelled, so the handler may run there and return.
DeleteSlide ==
    /\ EditorOnScreen
    /\ IF DeleteRejected(slides)
       THEN UNCHANGED <<currentPresentation, selectedSlideIndex>>
       ELSE /\ currentPresentation' =
                   [currentPresentation EXCEPT
                       !.slides = DeletedSlides(slides, selectedSlideIndex)]
            /\ selectedSlideIndex' = DeletedSelection(selectedSlideIndex)
    /\ lastOp' = "delete"
    /\ UNCHANGED <<now, edits>>
    /\ EditorFrame

\* Move Up / Move Down are disabled at the boundary; as for delete the handler's
\* own guard is modelled.
MoveSlide ==
    /\ EditorOnScreen
    /\ \E direction \in {"up", "down"} :
          LET newIndex == MoveTarget(selectedSlideIndex, direction)
          IN  /\ IF MoveRejected(slides, newIndex)
                 THEN UNCHANGED <<currentPresentation, selectedSlideIndex>>
                 ELSE /\ currentPresentation' =
                             [currentPresentation EXCEPT
                                 !.slides = SwappedSlides(slides, selectedSlideIndex, newIndex)]
                      /\ selectedSlideIndex' = MovedSelection(selectedSlideIndex, newIndex)
              /\ lastOp' = IF direction = "up" THEN "moveUp" ELSE "moveDown"
    /\ UNCHANGED <<now, edits>>
    /\ EditorFrame

\* a thumbnail is clicked: setSelectedSlideIndex(index)
SelectSlide ==
    /\ EditorOnScreen
    /\ \E index \in 0..(Len(slides) - 1) : selectedSlideIndex' = index
    /\ lastOp' = "select"
    /\ UNCHANGED <<currentPresentation, now, edits>>
    /\ EditorFrame

\* the title and content inputs and the layout buttons: updateSlide({ field: value })
EditSlideField ==
    /\ EditorOnScreen
    /\ edits < MaxEdits
    /\ \E updates \in {[title |-> v] : v \in TitleInputs}
                      \cup {[content |-> v] : v \in ContentInputs}
                      \cup {[layout |-> v] : v \in LayoutInputs} :
          currentPresentation' =
              [currentPresentation EXCEPT
                  !.slides = UpdatedSlides(slides, selectedSlideIndex, updates)]
    /\ edits' = edits + 1
    /\ lastOp' = "edit"
    /\ UNCHANGED <<selectedSlideIndex, now>>
    /\ EditorFrame

\* Remove Image: updateSlide({ imageUrl: undefined }), offered when the slide has an image
RemoveImage ==
    /\ EditorOnScreen
    /\ SlideAt(slides, selectedSlideIndex).imageUrl # Undefined
    /\ currentPresentation' =
           [currentPresentation EXCEPT
               !.slides = UpdatedSlides(slides, selectedSlideIndex, [imageUrl |-> Undefined])]
    /\ lastOp' = "removeImage"
    /\ UNCHANGED <<selectedSlideIndex, now, edits>>
    /\ EditorFrame

ChooseThemeOfSlide ==
    /\ EditorOnScreen
    /\ edits < MaxEdits
    /\ \E theme \in ThemeInputs :
          currentPresentation' =
              [currentPresentation EXCEPT
                  !.slides = UpdatedSlides(slides, selectedSlideIndex, [theme |-> theme])]
    /\ edits' = edits + 1
    /\ lastOp' = "theme"
    /\ UNCHANGED <<selectedSlideIndex, now>>
    /\ EditorFrame

\* the theme buttons: setCurrentPresentation({ ...currentPresentation, theme: theme.id })
ChooseTheme ==
    /\ EditorOnScreen
    /\ edits < MaxEdits
    /\ \E theme \in ThemeInputs :
          currentPresentation' = [currentPresentation EXCEPT !.theme = theme]
    /\ edits' = edits + 1
    /\ lastOp' = "theme"
    /\ UNCHANGED <<selectedSlideIndex, now>>
    /\ EditorFrame

\* Date.now() moves on
ClockAdvances ==
    /\ currentView = "editor"
    /\ now < MaxClock
    /\ now' = now + 1
    /\ lastOp' = "clock"
    /\ UNCHANGED <<appVars, editorVars, viewerVars, historyVars, edits,
                   dashboardVars, requestVars>>

NextEditor ==
    \/ AddSlide
    \/ DuplicateSlide
    \/ DeleteSlide
    \/ MoveSlide
    \/ SelectSlide
    \/ EditSlideField
    \/ RemoveImage
    \/ ChooseTheme
    \/ ClockAdvances

SpecEditor == InitEditor /\ [][NextEditor]_vars

\* The editor with several slides added in one sitting: Add Slide and
\* Duplicate may each be clicked until MaxNewSlides slides were added, with
\* Date.now() moving on between two clicks or not.
AddSlideRepeated == AddSlideWithin(MaxNewSlides)

DuplicateSlideRepeated == DuplicateSlideWithin(MaxNewSlides)

NextSlideIds ==
    \/ AddSlideRepeated
    \/ DuplicateSlideRepeated
    \/ DeleteSlide
    \/ MoveSlide
    \/ SelectSlide
    \/ ClockAdvances

SpecSlideIds == InitEditor /\ [][NextSlideIds]_vars

\* ==================================================================== app
\* App with its three views and the requests to the backend.  A request in
\* flight is a record of what its closure captured when the handler ran; its
\* completion is a separate step, so that user actions and completions
\* interleave freely.  A step that changes App's state re-renders: components
\* that are no longer rendered unmount (their state is dropped, and setState
\* calls of closures they left behind do nothing), components rendered anew
\* mount with their initial state.
DashboardMounted == currentView = "dashboard" /\ ~loading

Without(reqs, k) == SubSeq(reqs, 1, k - 1) \o SubSeq(reqs, k + 1, Len(reqs))

\* the component that issued these requests has unmounted
Orphaned(reqs) == [k \in 1..Len(reqs) |-> [reqs[k] EXCEPT !.alive = FALSE]]

\* App re-renders with view v, presentation p and loading l; sv and gn are the
\* editor's requests in flight and sf, gf its busy flags as the step leaves
\* them.  An editor that stays mounted runs its effect on [presentation] when
\* the prop changed (setCurrentPresentation(presentation)) and keeps its
\* selection; presentations are compared by value.
Render(v, p, l, sv, gn, sf, gf) ==
    LET editorStays == EditorMounted /\ v = "editor" /\ ~l
        dashboardStays == DashboardMounted /\ v = "dashboard" /\ ~l
        viewerStays == currentView = "viewer" /\ v = "viewer" /\ ~l
    IN  /\ currentView' = v
        /\ presentation' = p
        /\ loading' = l
        /\ currentPresentation' =
               IF editorStays /\ p = presentation THEN currentPresentation ELSE p
        /\ selectedSlideIndex' = IF editorStays THEN selectedSlideIndex ELSE 0
        /\ isSaving' = (editorStays /\ sf)
        /\ isGeneratingImage' = (editorStays /\ gf)
        /\ saves' = IF editorStays THEN sv ELSE Orphaned(sv)
        /\ gens' = IF editorStays THEN gn ELSE Orphaned(gn)
        /\ IF dashboardStays
           THEN UNCHANGED dashboardVars
           ELSE /\ isCreateOpen' = FALSE
                /\ title' = ""
                /\ prompt' = ""
                /\ isCreating' = FALSE
        /\ IF viewerStays
           THEN UNCHANGED <<viewerVars, historyVars>>
           ELSE /\ UnmountViewer
                /\ idle' = 0
                /\ run' = NoRun

\* ------------------------------------------------------------- dashboard
PromptInputs == {"Outline the quarter"}

\* <Button onClick={() => setIsCreateOpen(true)}>
OpenCreateDialog ==
    /\ DashboardMounted
    /\ ~isCreateOpen
    /\ isCreateOpen' = TRUE
    /\ lastOp' = "openDialog"
    /\ UNCHANGED <<appVars, editorVars, viewerVars, historyVars, now, edits,
                   title, prompt, isCreating, requestVars>>

\* Cancel, or the dialog's onOpenChange(false): the inputs keep their text
CancelCreateDialog ==
    /\ DashboardMounted
    /\ isCreateOpen
    /\ isCreateOpen' = FALSE
    /\ lastOp' = "cancelDialog"
    /\ UNCHANGED <<appVars, editorVars, viewerVars, historyVars, now, edits,
                   title, prompt, isCreating, requestVars>>

\* a template card: handleTemplateSelect sets the title and the prompt
\* (typing into the two inputs reaches the same states one field at a time)
TemplateSelect ==
    /\ DashboardMounted
    /\ isCreateOpen
    /\ \E t \in TitleInputs, q \in PromptInputs :
          /\ <<t, q>> # <<title, prompt>>
          /\ title' = t
          /\ prompt' = q
    /\ lastOp' = "template"
    /\ UNCHANGED <<appVars, editorVars, viewerVars, historyVars, now, edits,
                   isCreateOpen, isCreating, requestVars>>

\* handleCreate up to its await: setIsCreating(true), and createPresentation's
\* setLoading(true), which puts the loader screen in place of the dashboard.
HandleCreate ==
    /\ DashboardMounted
    /\ isCreateOpen
    /\ ~isCreating
    /\ title # "" /\ prompt # ""
    /\ issued < MaxRequests
    /\ issued' = issued + 1
    /\ wanted' = wanted
    /\ creates' = Append(creates, [title |-> title, prompt |-> prompt, stage |-> "generate"])
    /\ Render(currentView, presentation, TRUE, saves, gens, isSaving, isGeneratingImage)
    /\ lastOp' = "create"
    /\ UNCHANGED <<now, edits, presentations, stored, opens>>

\* the slides the model returns, as createPresentation maps them
GeneratedSlideCounts == {2}

GeneratedSlides(t, n) ==
    [i \in 1..n |-> CreatedSlide(t, i - 1, IF i = 1 THEN "Intro" ELSE "Topic",
                                 IF i = 1 THEN "title" ELSE "content")]

\* generateObject and db.presentations.create have resolved (the database
\* keeps one row per id): setCurrentPresentation, setCurrentView('editor');
\* loadPresentations is awaited next, the loader screen stays.
CreateSucceeds ==
    /\ ~Crashed
    /\ Len(creates) = 1
    /\ creates[1].stage = "generate"
    /\ \A r \in stored : r.id # <<"pres", now>>
    /\ \E n \in GeneratedSlideCounts :
          LET made == [id |-> <<"pres", now>>, title |-> creates[1].title,
                       theme |-> "modern", slides |-> GeneratedSlides(now, n)]
          IN  /\ stored' = stored \cup {Row(made)}
              /\ Render("editor", made, loading, saves, gens, isSaving, isGeneratingImage)
    /\ creates' = <<[creates[1] EXCEPT !.stage = "list"]>>
    /\ lastOp' = "created"
    /\ UNCHANGED <<now, edits, presentations, opens, issued, wanted>>

\* loadPresentations has returned: setPresentations(data); finally: setLoading(false)
CreateListed ==
    /\ ~Crashed
    /\ Len(creates) = 1
    /\ creates[1].stage = "list"
    /\ presentations' = stored
    /\ creates' = << >>
    /\ Render(currentView, presentation, FALSE, saves, gens, isSaving, isGeneratingImage)
    /\ lastOp' = "createListed"
    /\ UNCHANGED <<now, edits, stored, opens, issued, wanted>>

\* generateObject or db.presentations.create rejects: catch logs, finally: setLoading(false)
CreateFails ==
    /\ ~Crashed
    /\ Len(creates) = 1
    /\ creates[1].stage = "generate"
    /\ creates' = << >>
    /\ Render(currentView, presentation, FALSE, saves, gens, isSaving, isGeneratingImage)
    /\ lastOp' = "createFailed"
    /\ UNCHANGED <<now, edits, presentations, stored, opens, issued, wanted>>

\* a presentation card: onClick={() => onOpenPresentation(presentation.id)}
OpenPresentation ==
    /\ DashboardMounted
    /\ issued < MaxRequests
    /\ issued' = issued + 1
    /\ \E row \in presentations :
          /\ opens' = Append(opens, row.id)
          /\ wanted' = row.id
    /\ lastOp' = "open"
    /\ UNCHANGED <<appVars, editorVars, viewerVars, historyVars, now, edits,
                   dashboardVars, loading, presentations, stored, isSaving,
                   isGeneratingImage, saves, gens, creates>>

\* The view openPresentation leaves: if (data.length > 0) { ...; setCurrentView('editor') }
OpenedViewAlways(found) == "editor"

OpenedView(found) == IF found THEN "editor" ELSE currentView

\* the list for the id has returned: setCurrentPresentation, setCurrentView('editor')
OpenCompletes ==
    /\ ~Crashed
    /\ \E k \in 1..Len(opens) :
          /\ opens' = Without(opens, k)
          /\ \E row \in stored :
                /\ row.id = opens[k]
                /\ Render(OpenedView(TRUE), Opened(row), loading, saves, gens, isSaving,
                          isGeneratingImage)
    /\ lastOp' = "opened"
    /\ UNCHANGED <<now, edits, presentations, stored, creates, issued, wanted>>

\* the list has returned no row (data.length = 0; the row is gone from the
\* store or belongs to another user): the if is skipped, no state is set
OpenEmpty ==
    /\ ~Crashed
    /\ \E k \in 1..Len(opens) : opens' = Without(opens, k)
    /\ Render(OpenedView(FALSE), presentation, loading, saves, gens, isSaving,
              isGeneratingImage)
    /\ lastOp' = "openedEmpty"
    /\ UNCHANGED <<now, edits, presentations, stored, creates, issued, wanted>>

\* the list rejects: catch logs
OpenFails ==
    /\ ~Crashed
    /\ \E k \in 1..Len(opens) : opens' = Without(opens, k)
    /\ lastOp' = "openFailed"
    /\ UNCHANGED <<appVars, editorVars, viewerVars, historyVars, now, edits,
                   dashboardVars, loading, presentations, stored, isSaving,
                   isGeneratingImage, saves, gens, creates, issued, wanted>>

\* ---------------------------------------------------------------- editor
\* handleSave up to its await: setIsSaving(true); onSave(currentPresentation)
HandleSave ==
    /\ EditorOnScreen
    /\ ~isSaving
    /\ issued < MaxRequests
    /\ issued' = issued + 1
    /\ wanted' = wanted
    /\ isSaving' = TRUE
    /\ saves' = Append(saves, [pres |-> currentPresentation, alive |-> TRUE,
                               stage |-> "update"])
    /\ lastOp' = "save"
    /\ UNCHANGED <<appVars, editorVars, viewerVars, historyVars, now, edits,
                   dashboardVars, loading, presentations, stored,
                   isGeneratingImage, gens, opens, creates>>

\* db.presentations.update(presentation.id, ...)
UpdatedRows(rows, p) == {IF r.id = p.id THEN Row(p) ELSE r : r \in rows}

\* savePresentation: the update has resolved; setCurrentPresentation(presentation)
SaveUpdated ==
    /\ ~Crashed
    /\ \E k \in 1..Len(saves) :
          /\ saves[k].stage = "update"
          /\ stored' = UpdatedRows(stored, saves[k].pres)
          /\ Render(currentView, saves[k].pres, loading,
                    [saves EXCEPT ![k].stage = "list"], gens, isSaving, isGeneratingImage)
    /\ lastOp' = "saved"
    /\ UNCHANGED <<now, edits, presentations, opens, creates, issued, wanted>>

\* savePresentation: loadPresentations has returned; handleSave's finally: setIsSaving(false)
SaveListed ==
    /\ ~Crashed
    /\ \E k \in 1..Len(saves) :
          /\ saves[k].stage = "list"
          /\ saves' = Without(saves, k)
          /\ isSaving' = IF saves[k].alive THEN FALSE ELSE isSaving
    /\ presentations' = stored
    /\ lastOp' = "saveListed"
    /\ UNCHANGED <<appVars, editorVars, viewerVars, historyVars, now, edits,
                   dashboardVars, loading, stored, isGeneratingImage, gens, opens, creates, issued, wanted>>

\* the update rejects: savePresentation's catch logs; handleSave's finally: setIsSaving(false)
SaveFails ==
    /\ ~Crashed
    /\ \E k \in 1..Len(saves) :
          /\ saves[k].stage = "update"
          /\ saves' = Without(saves, k)
          /\ isSaving' = IF saves[k].alive THEN FALSE ELSE isSaving
    /\ lastOp' = "saveFailed"
    /\ UNCHANGED <<appVars, editorVars, viewerVars, historyVars, now, edits,
                   dashboardVars, loading, presentations, stored,
                   isGeneratingImage, gens, opens, creates, issued, wanted>>

\* generateImage up to its await: the closure keeps updateSlide of this
\* render, that is currentPresentation and selectedSlideIndex as they are now
GenerateImage ==
    /\ EditorOnScreen
    /\ ~isGeneratingImage
    /\ ~(SlideAt(slides, selectedSlideIndex).title = ""
         /\ SlideAt(slides, selectedSlideIndex).content = "")
    /\ issued < MaxRequests
    /\ issued' = issued + 1
    /\ wanted' = wanted
    /\ isGeneratingImage' = TRUE
    /\ gens' = Append(gens, [pres |-> currentPresentation, sel |-> selectedSlideIndex,
                             alive |-> TRUE])
    /\ lastOp' = "generate"
    /\ UNCHANGED <<appVars, editorVars, viewerVars, historyVars, now, edits,
                   dashboardVars, loading, presentations, stored, isSaving,
                   saves, opens, creates>>

\* the image has arrived: updateSlide({ imageUrl: data[0].url }) of the
\* render that issued the request; finally: setIsGeneratingImage(false)
ImageGenerated ==
    /\ ~Crashed
    /\ \E k \in 1..Len(gens) :
          /\ gens' = Without(gens, k)
          /\ IF gens[k].alive
             THEN /\ \E url \in ImageUrls :
                        currentPresentation' =
                            [gens[k].pres EXCEPT
                                !.slides = UpdatedSlides(gens[k].pres.slides, gens[k].sel,
                                                         [imageUrl |-> url])]
                  /\ isGeneratingImage' = FALSE
             ELSE UNCHANGED <<currentPresentation, isGeneratingImage>>
    /\ lastOp' = "generated"
    /\ UNCHANGED <<appVars, selectedSlideIndex, viewerVars, historyVars, now, edits,
                   dashboardVars, loading, presentations, stored, isSaving,
                   saves, opens, creates, issued, wanted>>

\* blink.ai.generateImage rejects: catch logs; finally: setIsGeneratingImage(false)
ImageFails ==
    /\ ~Crashed
    /\ \E k \in 1..Len(gens) :
          /\ gens' = Without(gens, k)
          /\ isGeneratingImage' = IF gens[k].alive THEN FALSE ELSE isGeneratingImage
    /\ lastOp' = "generateFailed"
    /\ UNCHANGED <<appVars, editorVars, viewerVars, historyVars, now, edits,
                   dashboardVars, loading, presentations, stored, isSaving,
                   saves, opens, creates, issued, wanted>>

\* onPresent={() => setCurrentView('viewer')}
Present ==
    /\ EditorOnScreen
    /\ Render("viewer", presentation, loading, saves, gens, isSaving, isGeneratingImage)
    /\ lastOp' = "present"
    /\ UNCHANGED <<now, edits, presentations, stored, opens, creates, issued, wanted>>

\* onBack={() => setCurrentView('dashboard')}
EditorBack ==
    /\ EditorOnScreen
    /\ Render("dashboard", presentation, loading, saves, gens, isSaving, isGeneratingImage)
    /\ lastOp' = "editorBack"
    /\ UNCHANGED <<now, edits, presentations, stored, opens, creates, issued, wanted>>

InitApp ==
    /\ currentView = "dashboard"
    /\ presentation = NoPresentation
    /\ EditorMountState
    /\ ViewerMountState
    /\ DashboardMountState
    /\ InitRequests
    /\ now = 0
    /\ edits = 0
    /\ InitHistory

\* of the editor's slide handlers the app model takes add, delete, select and
\* the field edits
NextApp ==
    \/ OpenCreateDialog
    \/ CancelCreateDialog
    \/ TemplateSelect
    \/ HandleCreate
    \/ CreateSucceeds
    \/ CreateListed
    \/ CreateFails
    \/ OpenPresentation
    \/ OpenCompletes
    \/ OpenEmpty
    \/ OpenFails
    \/ AddSlide
    \/ DeleteSlide
    \/ SelectSlide
    \/ EditSlideField
    \/ HandleSave
    \/ SaveUpdated
    \/ SaveListed
    \/ SaveFails
    \/ GenerateImage
    \/ ImageGenerated
    \/ ImageFails
    \/ RemoveImage
    \/ Present
    \/ EditorBack
    \/ ExitButton

SpecApp == InitApp /\ [][NextApp]_vars

\* The app without the handlers that edit slides: those change the editor's
\* in-memory presentation and selection only, which no handler that changes
\* the view, issues a request or completes one depends on for being enabled.
NextNavigation ==
    \/ OpenCreateDialog
    \/ CancelCreateDialog
    \/ TemplateSelect
    \/ HandleCreate
    \/ CreateSucceeds
    \/ CreateListed
    \/ CreateFails
    \/ OpenPresentation
    \/ OpenCompletes
    \/ OpenEmpty
    \/ OpenFails
    \/ HandleSave
    \/ SaveUpdated
    \/ SaveListed
    \/ SaveFails
    \/ GenerateImage
    \/ ImageGenerated
    \/ ImageFails
    \/ RemoveImage
    \/ Present
    \/ EditorBack
    \/ ExitButton
    \/ ToggleFullscreen

SpecNavigation == InitApp /\ [][NextNavigation]_vars



\* ========================================================== editor claims
\* C4: the editor's slide list never has fewer than one slide, and delete
\* invoked on a one-slide deck changes neither the slide list nor the selection.
C4_AtLeastOneSlide ==
    /\ [](Len(slides) >= 1)
    /\ [][(lastOp' = "delete" /\ Len(slides) = 1)
             => (currentPresentation' = currentPresentation
                 /\ selectedSlideIndex' = selectedSlideIndex)]_vars

\* delete has run on the one-slide deck the editor was opened with
C4_Witness ==
    /\ currentView = "editor"
    /\ presentation = CreatedPresentation(1)
    /\ edits = 0
    /\ lastOp = "delete"
    /\ currentPresentation = presentation
    /\ selectedSlideIndex = 0

\* C5: in the editor exactly one slide is selected and the selected index is
\* a position of the slide list.
C5_SelectionValid ==
    currentView = "editor" =>
        /\ 0 <= selectedSlideIndex
        /\ selectedSlideIndex < Len(slides)
        /\ Cardinality(SelectedThumbnails) = 1

\* the first of several slides was deleted: the selection was clamped to 0
C5_Witness ==
    /\ currentView = "editor"
    /\ lastOp = "delete"
    /\ selectedSlideIndex = 0
    /\ Len(slides) = 2
    /\ presentation = CreatedPresentation(3)
    /\ edits = 0
    /\ slides[1] = presentation.slides[2]
    /\ slides[2] = presentation.slides[3]

\* C6: moveSlide at the boundary (up on the first slide, down on the last)
\* changes nothing; otherwise it exchanges the selected slide with its
\* neighbour in the direction moved, the selection follows the slide and all
\* other positions, and the presentation's title and theme, stay as they were.
C6_MoveSwapsNeighbours ==
    [][lastOp' \in {"moveUp", "moveDown"} =>
          LET i == selectedSlideIndex
              j == IF lastOp' = "moveUp" THEN i - 1 ELSE i + 1
              L == Len(slides)
          IN  IF j < 0 \/ j > L - 1
              THEN /\ currentPresentation' = currentPresentation
                   /\ selectedSlideIndex' = i
              ELSE /\ Len(slides') = L
                   /\ slides'[j + 1] = slides[i + 1]
                   /\ slides'[i + 1] = slides[j + 1]
                   /\ \A k \in 1..L : (k # i + 1 /\ k # j + 1) => slides'[k] = slides[k]
                   /\ selectedSlideIndex' = j
                   /\ currentPresentation'.title = currentPresentation.title
                   /\ currentPresentation'.theme = currentPresentation.theme]_vars

\* the first slide of a 3-slide deck was moved down past the second
C6_Witness ==
    /\ currentView = "editor"
    /\ lastOp = "moveDown"
    /\ presentation = CreatedPresentation(3)
    /\ edits = 0
    /\ Len(slides) = 3
    /\ selectedSlideIndex = 1
    /\ slides[1] = presentation.slides[2]
    /\ slides[2] = presentation.slides[1]
    /\ slides[3] = presentation.slides[3]

\* C7: duplicateSlide on L slides with selection i yields L+1 slides; position
\* i+1 holds a copy of slide i with " (Copy)" appended to the title and the
\* same content, image, theme and layout; positions 0..i are unchanged, the
\* former positions i+1..L-1 follow in the same order, and i+1 is selected.
C7_DuplicateInsertsAfter ==
    [][lastOp' = "duplicate" =>
          LET i == selectedSlideIndex
              L == Len(slides)
              src == slides[i + 1]
              copy == slides'[i + 2]
          IN  /\ Len(slides') = L + 1
              /\ copy.title = src.title \o " (Copy)"
              /\ copy.content = src.content
              /\ copy.imageUrl = src.imageUrl
              /\ copy.theme = src.theme
              /\ copy.layout = src.layout
              /\ \A k \in 1..(i + 1) : slides'[k] = slides[k]
              /\ \A k \in (i + 2)..L : slides'[k + 1] = slides[k]
              /\ selectedSlideIndex' = i + 1]_vars

\* the first slide of a 2-slide deck was duplicated: the second slide moved on
C7_Witness ==
    /\ currentView = "editor"
    /\ lastOp = "duplicate"
    /\ presentation = CreatedPresentation(2)
    /\ Len(slides) = 3
    /\ selectedSlideIndex = 1
    /\ slides[1] = presentation.slides[1]
    /\ slides[2].title = "Intro (Copy)"
    /\ slides[3] = presentation.slides[2]

\* ========================================================== viewer claims
\* C1: on every deck of N >= 1 slides the viewer's slide index stays within
\* 0..N-1 under next, prev, restart, toggleAutoplay, toggleFullscreen,
\* mouse moves and autoplay ticks.
C1_IndexInRange ==
    currentView = "viewer" =>
        /\ 0 <= currentSlideIndex
        /\ currentSlideIndex <= SlideCount - 1

\* next was pressed on the last slide of the largest deck and changed nothing
C1_Witness ==
    /\ currentView = "viewer"
    /\ SlideCount = MaxSlides
    /\ currentSlideIndex = SlideCount - 1
    /\ lastOp = "next"
    /\ idle > 0

\* C2: an autoplay tick that fires while autoplay is on and the index is N-1
\* switches autoplay off and leaves the index where it is (no wrap to 0).
C2_TickAtLastStops ==
    [][(lastOp' = "tick" /\ isAutoPlay /\ currentSlideIndex = SlideCount - 1)
          => (isAutoPlay' = FALSE /\ currentSlideIndex' = currentSlideIndex)]_vars

C2_Witness ==
    /\ currentView = "viewer"
    /\ lastOp = "tick"
    /\ SlideCount >= 2
    /\ currentSlideIndex = SlideCount - 1
    /\ ~isAutoPlay
    /\ interval = NoTimer

\* C3: restart, from whatever state, yields index 0 and autoplay off.
C3_RestartResets ==
    [][lastOp' = "restart" => (currentSlideIndex' = 0 /\ isAutoPlay' = FALSE)]_vars

\* restart has acted in fullscreen (the index moved, so the hide timeout was re-armed)
C3_Witness ==
    /\ lastOp = "restart"
    /\ currentSlideIndex = 0
    /\ ~isAutoPlay
    /\ isFullscreen
    /\ idle = 0
    /\ timeout = HideDelaySec

\* C8: once autoplay is on and only timer events follow, autoplay eventually
\* switches off; when a run of ticks alone has switched it off the index is
\* N-1 and the run took N - start ticks (N ticks from index 0); during the
\* run each tick advanced by exactly one slide.
C8_AutoplayTerminates ==
    /\ (isAutoPlay /\ lastOp \notin UserOps) ~> (~isAutoPlay \/ lastOp \in UserOps)
    /\ [](run.clean /\ ~isAutoPlay =>
             /\ currentSlideIndex = SlideCount - 1
             /\ run.ticks = SlideCount - run.start)
    /\ [](run.clean /\ isAutoPlay => run.ticks = currentSlideIndex - run.start)

\* two ticks on a 2-slide deck, started at index 0
C8_Witness ==
    /\ run.clean
    /\ ~isAutoPlay
    /\ SlideCount = 2
    /\ run.start = 0
    /\ run.ticks = 2
    /\ currentSlideIndex = 1
    /\ lastOp = "tick"

\* C9: in fullscreen the controls are hidden once 3 seconds have passed since
\* the last activity (index change or mouse movement).
C9_HiddenAfterIdle ==
    (currentView = "viewer" /\ isFullscreen /\ idle > HideDelaySec) => ~showControls

\* C10: while the viewer is not in fullscreen the controls are visible, and no
\* hide timeout is pending (one armed in fullscreen is cleared on leaving it).
C10_VisibleOutsideFullscreen ==
    (currentView = "viewer" /\ ~isFullscreen) =>
        /\ showControls
        /\ ControlsOpaque
        /\ timeout = NoTimer

\* fullscreen has just been left
C10_Witness ==
    /\ currentView = "viewer"
    /\ lastOp \in {"toggleFullscreen", "escape"}
    /\ ~isFullscreen
    /\ showControls
    /\ timeout = NoTimer

\* C11: Escape pressed in fullscreen only leaves fullscreen (index, autoplay
\* and view stay, the exit callback is not invoked); Escape pressed outside
\* fullscreen invokes the exit callback, which shows the editor; entering or
\* leaving fullscreen never changes the slide index.
C11_EscapeLeavesFullscreenFirst ==
    /\ [][(currentView = "viewer" /\ lastOp' \in {"escape", "escapeBack"}) =>
             IF isFullscreen
             THEN /\ lastOp' = "escape"
                  /\ isFullscreen' = FALSE
                  /\ currentSlideIndex' = currentSlideIndex
                  /\ isAutoPlay' = isAutoPlay
                  /\ currentView' = "viewer"
             ELSE /\ lastOp' = "escapeBack"
                  /\ currentView' = "editor"]_vars
    /\ [][(currentView' = "viewer" /\ isFullscreen' # isFullscreen)
             => currentSlideIndex' = currentSlideIndex]_vars

\* Escape has left fullscreen on a later slide while autoplay was running
C11_Witness ==
    /\ currentView = "viewer"
    /\ lastOp = "escape"
    /\ ~isFullscreen
    /\ currentSlideIndex > 0
    /\ isAutoPlay

\* C16: deleteSlide on L >= 2 slides with selection i removes exactly the
\* slide at position i, keeps every other slide in its relative order, and
\* selects max(0, i - 1).
C16_DeleteRemovesSelected ==
    [][(lastOp' = "delete" /\ Len(slides) >= 2) =>
          LET i == selectedSlideIndex
              L == Len(slides)
          IN  /\ Len(slides') = L - 1
              /\ \A k \in 1..i : slides'[k] = slides[k]
              /\ \A k \in (i + 2)..L : slides'[k - 1] = slides[k]
              /\ selectedSlideIndex' = (IF i - 1 > 0 THEN i - 1 ELSE 0)
              /\ currentPresentation'.title = currentPresentation.title
              /\ currentPresentation'.theme = currentPresentation.theme]_vars

\* the middle slide of a 3-slide deck was deleted: its neighbours closed up
C16_Witness ==
    /\ currentView = "editor"
    /\ lastOp = "delete"
    /\ presentation = CreatedPresentation(3)
    /\ edits = 0
    /\ Len(slides) = 2
    /\ selectedSlideIndex = 0
    /\ slides[1] = presentation.slides[1]
    /\ slides[2] = presentation.slides[3]

\* C17 (as stated): choosing a theme in the editor replaces the theme field
\* of the selected slide with the chosen theme and leaves the other slides'
\* theme fields unchanged.
C17_ThemeOfSelectedSlide ==
    [][lastOp' = "theme" =>
          \E t \in ThemeInputs :
              slides' = UpdatedSlides(slides, selectedSlideIndex, [theme |-> t])]_vars

\* C17 (amended): choosing a theme in the editor replaces the theme field of
\* the presentation with the chosen theme; the slide list, the theme field of
\* every slide (the selected one included), the presentation title and the
\* selection are unchanged.
C17_ThemeOfPresentation ==
    [][lastOp' = "theme" =>
          /\ currentPresentation'.theme \in ThemeInputs
          /\ slides' = slides
          /\ \A k \in 1..Len(slides) : slides'[k].theme = slides[k].theme
          /\ currentPresentation'.title = currentPresentation.title
          /\ selectedSlideIndex' = selectedSlideIndex]_vars

\* a theme was chosen with the second of several slides selected: the
\* presentation carries it, every slide still carries the theme it had
C17_Witness ==
    /\ currentView = "editor"
    /\ lastOp = "theme"
    /\ Len(slides) >= 2
    /\ selectedSlideIndex = 1
    /\ currentPresentation.theme = "minimal"
    /\ presentation.theme = "modern"
    /\ \A k \in 1..Len(slides) : slides[k].theme = "modern"

C12_FailureAbsorbed ==
    [][/\ lastOp' = "createFailed" =>
             /\ loading' = FALSE
             /\ UNCHANGED <<currentView, presentation, presentations,
                            currentPresentation, selectedSlideIndex>>
             /\ title' = creates[1].title
             /\ prompt' = creates[1].prompt
       /\ lastOp' = "saveFailed" =>
             /\ isSaving' = (\E k \in 1..Len(saves') : saves'[k].alive)
             /\ UNCHANGED <<currentView, presentation, presentations,
                            currentPresentation, selectedSlideIndex, title, prompt>>
       /\ lastOp' = "generateFailed" =>
             /\ isGeneratingImage' = (\E k \in 1..Len(gens') : gens'[k].alive)
             /\ UNCHANGED <<currentView, presentation, presentations,
                            currentPresentation, selectedSlideIndex, title, prompt>>]_vars

\* C13: at most one save request and at most one image-generation request is
\* in flight at any time, and while the editor is on screen with a request
\* pending the control that triggers it is disabled (its busy flag is set).
C13_OneRequestInFlight ==
    /\ Len(saves) <= 1
    /\ Len(gens) <= 1
    /\ EditorMounted => /\ (Len(saves) > 0 => isSaving)
                        /\ (Len(gens) > 0 => isGeneratingImage)

\* C14: the view changes only along dashboard -> editor (a create or an open
\* completes), editor -> viewer (Present), viewer -> editor (the viewer's
\* Exit or Escape) and editor -> dashboard (the editor's Back); in particular
\* never dashboard -> viewer and never viewer -> dashboard.
C14_ViewEdges ==
    [][currentView' # currentView =>
          \/ /\ currentView = "dashboard" /\ currentView' = "editor"
             /\ lastOp' \in {"created", "opened"}
          \/ /\ currentView = "editor" /\ currentView' = "viewer"
             /\ lastOp' = "present"
          \/ /\ currentView = "viewer" /\ currentView' = "editor"
             /\ lastOp' \in {"exit", "escapeBack"}
          \/ /\ currentView = "editor" /\ currentView' = "dashboard"
             /\ lastOp' = "editorBack"]_vars

\* C15: Present hands the viewer the editor's current in-memory presentation,
\* unsaved edits included, and when the viewer goes back the editor holds
\* that same presentation.
C15_PresentHandsOverEdits ==
    /\ [][lastOp' = "present" => presentation' = currentPresentation]_vars
    /\ [][(currentView = "viewer" /\ lastOp' \in {"exit", "escapeBack"})
             => currentPresentation' = presentation]_vars

\* C19: whenever the editor is on screen the selected index is a position of
\* the editor's current slide list, also when a save, image-generation or
\* open completion is interleaved with slide operations issued while the
\* request was pending.
C19_SelectionValidUnderCompletions ==
    EditorMounted =>
        /\ 0 <= selectedSlideIndex
        /\ selectedSlideIndex <= Len(slides) - 1

\* C20: edits made while a save or an image generation is pending survive its
\* completion: a save completion leaves the editor's slide list as it is, and
\* an image-generation completion changes nothing but the imageUrl of the
\* slide that was selected when the generation was triggered.
C20_EditsSurviveCompletion ==
    /\ [][(lastOp' = "saved" /\ EditorMounted) => slides' = slides]_vars
    /\ [][(lastOp' = "generated" /\ EditorMounted) =>
             \E k \in 1..Len(gens) :
                /\ gens' = Without(gens, k)
                /\ Len(slides') = Len(slides)
                /\ \A i \in 1..Len(slides) :
                      \A f \in SlideFields :
                         (i # gens[k].sel + 1 \/ f # "imageUrl")
                            => slides'[i][f] = slides[i][f]]_vars

\* C21: of several open requests issued from the dashboard the one requested
\* last wins whatever the order of the responses: once its presentation is
\* shown no other response replaces it; and a response that arrives after
\* the user has edited the presentation in the editor does not replace the
\* editor's content.
C21_LastOpenWins ==
    /\ [][(lastOp' = "opened" /\ currentView # "dashboard" /\ presentation.id = wanted)
             => presentation'.id = wanted]_vars
    /\ [][(lastOp' = "opened" /\ EditorMounted /\ currentPresentation # presentation)
             => currentPresentation' = currentPresentation]_vars

\* C22: whenever the viewer is mounted its fullscreen flag equals the
\* platform's fullscreen state: also after a fullscreen request the platform
\* rejected, after the platform left fullscreen on its own, and after the
\* viewer was left through Exit while fullscreen and entered again.
C22_FlagMatchesPlatform ==
    currentView = "viewer" => isFullscreen = platformFullscreen

\* C23: in every state of the app whose view is the editor or the viewer the
\* current presentation is not null.
C23_PresentationPresent ==
    currentView \in {"editor", "viewer"} => presentation # NoPresentation

\* the viewer is on screen after a presentation was opened from the dashboard
\* and an open request has come back without a row
C23_Witness ==
    /\ currentView = "viewer"
    /\ presentation # NoPresentation
    /\ lastOp = "openedEmpty"

\* C24: after any sequence of append and duplicate operations on a deck whose
\* slide ids are pairwise distinct the slide ids are still pairwise distinct,
\* also when two of the operations read the same value of the clock.
C24_SlideIdsDistinct ==
    EditorMounted =>
        \A i, j \in 1..Len(slides) : i # j => slides[i].id # slides[j].id

=============================================================================
